---- MODULE Spec2Model ----
(***************************************************************************)
(* State-machine model of src/bot.py: the per-user daily usage tracker of  *)
(* SimorghAIBot (user_usage, check_user_limit, increment_user_usage), the  *)
(* Gemini answer service (ask_gemini) and the update handlers              *)
(* (handle_message, button_callback) that drive them.                      *)
(*                                                                         *)
(* Two specifications are defined:                                         *)
(*   Spec         the bot: handlers of different users interleave at their *)
(*                await points, the UTC date may advance at any point;     *)
(*   SpecTracker  the tracker's two public methods called in any order,    *)
(*                as a unit test of the class would call them.             *)
(***************************************************************************)
EXTENDS Integers, Sequences, FiniteSets, TLC

(***************************************************************************)
(* Configuration (environment-supplied, src/bot.py:41-42).  The defaults   *)
(* are 5 and 500; both are read with int(os.getenv(...)), the model runs   *)
(* the bot configured with small values.                                   *)
(***************************************************************************)
DAILY_LIMIT == 2
MAX_QUESTION_LENGTH == 1

(* Bounds of the model. *)
MaxDay == 1          \* datetime.utcnow().date() ranges over 0..MaxDay
MaxTextLen == 2      \* an incoming message text has 1..MaxTextLen characters
MaxOver == 2         \* SpecTracker increments a count up to DAILY_LIMIT + MaxOver

Users == {"u1", "u2"}

(***************************************************************************)
(* Strings are sequences of characters.  "sp" is a whitespace character,   *)
(* "cross" is U+274C, "warn" is U+26A0, "vs16" is U+FE0F (the source       *)
(* writes the warning sign as the two code points U+26A0 U+FE0F).          *)
(***************************************************************************)
SeqsUpTo(S, n) == UNION {[1..k -> S] : k \in 0..n}

TextChars == {"a", "sp"}
RawTexts == SeqsUpTo(TextChars, MaxTextLen) \ {<<>>}

(* Text fragments the provider may generate: empty, blank, plain, padded   *)
(* with whitespace, and texts that carry a failure mark or part of one.    *)
ProviderTexts ==
    { <<>>, <<"sp">>, <<"a">>, <<"sp", "a", "sp">>, <<"a", "cross">>,
      <<"cross", "a">>, <<"sp", "cross">>, <<"warn", "vs16", "a">>, <<"warn", "a">> }

RECURSIVE lstrip(_)
lstrip(s) == IF s # <<>> /\ Head(s) = "sp" THEN lstrip(Tail(s)) ELSE s

RECURSIVE rstrip(_)
rstrip(s) ==
    IF s # <<>> /\ s[Len(s)] = "sp" THEN rstrip(SubSeq(s, 1, Len(s) - 1)) ELSE s

(* str.strip() *)
strip(s) == rstrip(lstrip(s))

(* str.startswith(prefix) *)
startswith(s, prefix) ==
    /\ Len(s) >= Len(prefix)
    /\ SubSeq(s, 1, Len(prefix)) = prefix

Max(a, b) == IF a >= b THEN a ELSE b

(***************************************************************************)
(* UsageTracker: self.user_usage is a dict user_id -> {"date", "count"},   *)
(* modelled as a function whose domain is the set of keys present.         *)
(***************************************************************************)
EmptyUsage == [u \in {} |-> [date |-> 0, count |-> 0]]

Put(usage, u, rec) == [v \in (DOMAIN usage) \cup {u} |-> IF v = u THEN rec ELSE usage[v]]

(* Faulty variants of check_user_limit: the limit test off by one, the      *)
(* floor at 0 left out.                                                    *)
check_user_limit_inclusive(usage, now, u) ==
    LET created == IF u \notin DOMAIN usage
                   THEN Put(usage, u, [date |-> now, count |-> 0])
                   ELSE usage
        reset == IF created[u].date # now
                 THEN Put(created, u, [date |-> now, count |-> 0])
                 ELSE created
        remaining == DAILY_LIMIT - reset[u].count
    IN  [usage |-> reset,
         can_ask |-> reset[u].count <= DAILY_LIMIT,
         remaining |-> Max(0, remaining)]

check_user_limit_no_floor(usage, now, u) ==
    LET created == IF u \notin DOMAIN usage
                   THEN Put(usage, u, [date |-> now, count |-> 0])
                   ELSE usage
        reset == IF created[u].date # now
                 THEN Put(created, u, [date |-> now, count |-> 0])
                 ELSE created
        remaining == DAILY_LIMIT - reset[u].count
    IN  [usage |-> reset,
         can_ask |-> reset[u].count < DAILY_LIMIT,
         remaining |-> remaining]

(***************************************************************************)
(* check_user_limit(user_id) -> (can_ask, remaining), with the dict as it  *)
(* leaves it: creates the record if absent, resets it if its date is not   *)
(* today, then computes both results on the count as it stands.            *)
(***************************************************************************)
check_user_limit(usage, now, u) ==
    LET created == IF u \notin DOMAIN usage
                   THEN Put(usage, u, [date |-> now, count |-> 0])
                   ELSE usage
        reset == IF created[u].date # now
                 THEN Put(created, u, [date |-> now, count |-> 0])
                 ELSE created
        remaining == DAILY_LIMIT - reset[u].count
    IN  [usage |-> reset,
         can_ask |-> reset[u].count < DAILY_LIMIT,
         remaining |-> Max(0, remaining)]

(* Faulty variant of increment_user_usage: a user without a record is left *)
(* without one.                                                            *)
increment_user_usage_no_create(usage, now, u) ==
    IF u \notin DOMAIN usage
    THEN usage
    ELSE [usage EXCEPT ![u].count = @ + 1]

(***************************************************************************)
(* increment_user_usage(user_id): creates the record if absent, then       *)
(* count += 1.  The stored date is neither read nor written.               *)
(***************************************************************************)
increment_user_usage(usage, now, u) ==
    LET created == IF u \notin DOMAIN usage
                   THEN Put(usage, u, [date |-> now, count |-> 0])
                   ELSE usage
    IN  [created EXCEPT ![u].count = @ + 1]

(***************************************************************************)
(* MembershipGate: is_user_member, with a faulty variant that fails open.  *)
(***************************************************************************)
is_user_member_fail_open(status) == status # "left"

(***************************************************************************)
(* MembershipGate: is_user_member.  get_chat_member either reports a       *)
(* status or raises ("error"); only three statuses count as membership,    *)
(* an error is answered False.  The model lets get_chat_member report one  *)
(* of the accepted statuses, one of the others, or raise.                  *)
(***************************************************************************)
MemberStatuses == {"member", "left", "error"}

is_user_member(status) ==
    IF status = "error"
    THEN FALSE
    ELSE status \in {"member", "administrator", "creator"}

(***************************************************************************)
(* AnswerService: ask_gemini.  The messages it returns on failure, spelled *)
(* with their leading characters; the last element stands for the rest of  *)
(* the sentence.                                                           *)
(***************************************************************************)
MSG_NOT_CONFIGURED == <<"warn", "vs16", "sp", "not_configured">>
MSG_STATUS == <<"cross", "sp", "service_error">>
MSG_NO_CANDIDATES == <<"cross", "sp", "no_answer">>
MSG_NO_PARTS == <<"cross", "sp", "invalid_answer">>
MSG_EMPTY == <<"cross", "sp", "empty_answer">>
MSG_TIMEOUT == <<"cross", "sp", "timeout">>
MSG_INTERNAL == <<"cross", "sp", "internal_error">>

(* What the provider does with one POST. *)
ProviderResponses ==
    [kind : {"timeout", "error", "status", "no_candidates", "no_parts"}, text : {<<>>}]
        \cup [kind : {"text"}, text : ProviderTexts]

(* Lines 107-150: the POST and what ask_gemini makes of its outcome. *)
provider_answer(resp) ==
    CASE resp.kind = "status" -> MSG_STATUS
      [] resp.kind = "no_candidates" -> MSG_NO_CANDIDATES
      [] resp.kind = "no_parts" -> MSG_NO_PARTS
      [] resp.kind = "timeout" -> MSG_TIMEOUT
      [] resp.kind = "error" -> MSG_INTERNAL
      [] resp.kind = "text" ->
           IF strip(resp.text) # <<>> THEN strip(resp.text) ELSE MSG_EMPTY

(* Faulty variant of ask_gemini: the key is not tested before the POST. *)
ask_gemini_no_key_check(api_key, resp) == provider_answer(resp)

ask_gemini(api_key, resp) ==
    IF ~api_key
    THEN MSG_NOT_CONFIGURED
    ELSE provider_answer(resp)

(* How the call ended, for the record of the handler's run. *)
ask_outcome(api_key, resp) ==
    IF ~api_key
    THEN "unconfigured"
    ELSE IF resp.kind = "text"
         THEN (IF strip(resp.text) # <<>> THEN "success" ELSE "empty")
         ELSE resp.kind

FailureOutcomes ==
    {"unconfigured", "status", "timeout", "error", "no_candidates", "no_parts", "empty"}

(* The two marks of line 364: the cross, and the warning sign followed by *)
(* its variation selector.                                               *)
SentinelPrefixes == {<<"cross">>, <<"warn", "vs16">>}

(* How a call of ask_gemini ended, as seen from outside: in "failure", in *)
(* "success" with a generated text, or in "marked", a generated text that *)
(* itself begins with one of the marks.                                   *)
answer_kind(api_key, resp) ==
    IF ask_outcome(api_key, resp) \in FailureOutcomes
    THEN "failure"
    ELSE IF \E p \in SentinelPrefixes : startswith(strip(resp.text), p)
         THEN "marked"
         ELSE "success"

(* Faulty variant of is_failure: only the cross is taken for a failure mark. *)
is_failure_cross_only(answer) == startswith(answer, <<"cross">>)

(* handle_message's test of the answer's first characters. *)
is_failure(answer) ==
    startswith(answer, <<"cross">>) \/ startswith(answer, <<"warn", "vs16">>)

(***************************************************************************)
(* State.                                                                  *)
(***************************************************************************)
VARIABLES
    user_usage,      \* bot_instance.user_usage
    today,           \* datetime.utcnow().date()
    gemini_api_key,  \* whether GEMINI_API_KEY is set
    awaiting,        \* context.user_data["awaiting_model_code"], per user
    pc,              \* per user: "idle", or the await a handle_message run is suspended at
    text,            \* per user: handle_message's local text
    remaining,       \* per user: handle_message's local remaining
    member_status,   \* per user: what get_chat_member did in the current or last run
    calls,           \* per user: the command or button handled last for the user, if the
                     \* last update was not a text message, and the calls made for it
    replies,         \* per user: the replies that run delivered
    ask_result,      \* per user: "none", or the answer_kind of that run's ask_gemini call
    crashed,         \* per user: that run ended with an uncaught exception
    fetch,           \* per user: what that run's get_site_stats call returned ("none": not called)
    last_op,         \* SpecTracker: the tracker method called last, and for whom
    ret,             \* SpecTracker: per user, what check_user_limit returned last
    incs             \* SpecTracker: per user, increment_user_usage calls made today

tracker_vars == <<user_usage, today>>
config_vars == <<gemini_api_key>>
handler_vars ==
    <<awaiting, pc, text, remaining, member_status, calls, replies, ask_result, crashed,
      fetch>>
unit_vars == <<last_op, ret, incs>>
vars == <<user_usage, today, gemini_api_key, awaiting, pc, text, remaining, member_status,
          calls, replies, ask_result, crashed, fetch, last_op, ret, incs>>

NoReturn == [valid |-> FALSE, can_ask |-> FALSE, remaining |-> 0, day |-> 0]

Init ==
    /\ user_usage = EmptyUsage
    /\ today = 0
    /\ gemini_api_key \in BOOLEAN
    /\ awaiting = [u \in Users |-> FALSE]
    /\ pc = [u \in Users |-> "idle"]
    /\ text = [u \in Users |-> <<>>]
    /\ remaining = [u \in Users |-> 0]
    /\ member_status = [u \in Users |-> "none"]
    /\ calls = [u \in Users |-> {}]
    /\ replies = [u \in Users |-> {}]
    /\ ask_result = [u \in Users |-> "none"]
    /\ crashed = [u \in Users |-> FALSE]
    /\ fetch = [u \in Users |-> "none"]
    /\ last_op = <<"none", "none">>
    /\ ret = [u \in Users |-> NoReturn]
    /\ incs = [u \in Users |-> 0]

(* The UTC date advances. *)
midnight ==
    /\ today < MaxDay
    /\ today' = today + 1
    /\ UNCHANGED <<user_usage, config_vars, handler_vars, unit_vars>>

(***************************************************************************)
(* handle_message.  A run of the handler for user u is a sequence of       *)
(* steps, each the code between two awaits; pc[u] names the await the run  *)
(* is suspended at.  A new update of u is taken up only when pc[u] is      *)
(* "idle": updates of one user are handled one after the other.            *)
(*                                                                         *)
(* reply_text outside a try block either delivers the reply or raises,     *)
(* which ends the run with an uncaught exception.                          *)
(***************************************************************************)
(* Line 314: the texts handle_message works on, update.message.text.strip(). *)
MessageTexts == {strip(raw) : raw \in RawTexts}

Fresh(u) ==
    /\ calls' = [calls EXCEPT ![u] = {}]
    /\ replies' = [replies EXCEPT ![u] = {}]
    /\ ask_result' = [ask_result EXCEPT ![u] = "none"]
    /\ crashed' = [crashed EXCEPT ![u] = FALSE]
    /\ remaining' = [remaining EXCEPT ![u] = 0]
    /\ member_status' = [member_status EXCEPT ![u] = "none"]
    /\ fetch' = [fetch EXCEPT ![u] = "none"]

(* Lines 308-319: the update arrives while awaiting_model_code is set. *)
handle_message_search(u) ==
    /\ pc[u] = "idle"
    /\ awaiting[u]
    /\ \E t \in MessageTexts, delivered \in BOOLEAN :
        /\ awaiting' = [awaiting EXCEPT ![u] = FALSE]
        /\ calls' = [calls EXCEPT ![u] = {}]
        /\ ask_result' = [ask_result EXCEPT ![u] = "none"]
        /\ remaining' = [remaining EXCEPT ![u] = 0]
        /\ member_status' = [member_status EXCEPT ![u] = "none"]
        /\ fetch' = [fetch EXCEPT ![u] = "none"]
        /\ IF delivered
           THEN /\ replies' = [replies EXCEPT ![u] = {"searching"}]
                /\ crashed' = [crashed EXCEPT ![u] = FALSE]
                /\ text' = [text EXCEPT ![u] = t]
                /\ pc' = [pc EXCEPT ![u] = "search_site_by_model"]
           ELSE /\ replies' = [replies EXCEPT ![u] = {}]
                /\ crashed' = [crashed EXCEPT ![u] = TRUE]
                /\ text' = [text EXCEPT ![u] = <<>>]
                /\ pc' = [pc EXCEPT ![u] = "idle"]
    /\ UNCHANGED <<tracker_vars, config_vars, unit_vars>>

(* Lines 321-323: search_site_by_model returns a string (it never raises), *)
(* which is sent as the reply.                                             *)
search_returns(u) ==
    /\ pc[u] = "search_site_by_model"
    /\ \E delivered \in BOOLEAN :
        /\ calls' = [calls EXCEPT ![u] = @ \cup {"search_site_by_model"}]
        /\ replies' = [replies EXCEPT ![u] = IF delivered THEN @ \cup {"search_result"} ELSE @]
        /\ crashed' = [crashed EXCEPT ![u] = ~delivered]
    /\ text' = [text EXCEPT ![u] = <<>>]
    /\ pc' = [pc EXCEPT ![u] = "idle"]
    /\ UNCHANGED <<tracker_vars, config_vars, awaiting, remaining, member_status,
                   ask_result, fetch, unit_vars>>

(* Lines 308-327: the update arrives while awaiting_model_code is not set; *)
(* the run suspends in is_user_member.                                     *)
handle_message_question(u) ==
    /\ pc[u] = "idle"
    /\ ~awaiting[u]
    /\ \E t \in MessageTexts : text' = [text EXCEPT ![u] = t]
    /\ Fresh(u)
    /\ pc' = [pc EXCEPT ![u] = "is_user_member"]
    /\ UNCHANGED <<tracker_vars, config_vars, awaiting, unit_vars>>

(* Lines 327-337: membership is not confirmed. *)
reject_not_member(u) ==
    /\ pc[u] = "is_user_member"
    /\ \E status \in MemberStatuses, delivered \in BOOLEAN :
        /\ ~is_user_member(status)
        /\ member_status' = [member_status EXCEPT ![u] = status]
        /\ calls' = [calls EXCEPT ![u] = @ \cup {"is_user_member"}]
        /\ replies' = [replies EXCEPT ![u] = IF delivered THEN @ \cup {"join"} ELSE @]
        /\ crashed' = [crashed EXCEPT ![u] = ~delivered]
    /\ text' = [text EXCEPT ![u] = <<>>]
    /\ pc' = [pc EXCEPT ![u] = "idle"]
    /\ UNCHANGED <<tracker_vars, config_vars, awaiting, remaining, ask_result, fetch,
                   unit_vars>>

(* Faulty variant of too_long: off by one. *)
too_long_strict(t) == Len(t) >= MAX_QUESTION_LENGTH

(* The length test of line 340. *)
too_long(t) == Len(t) > MAX_QUESTION_LENGTH

(* Lines 327-344: a member's text is too long. *)
reject_too_long(u) ==
    /\ pc[u] = "is_user_member"
    /\ \E status \in MemberStatuses, delivered \in BOOLEAN :
        /\ is_user_member(status)
        /\ too_long(text[u])
        /\ member_status' = [member_status EXCEPT ![u] = status]
        /\ calls' = [calls EXCEPT ![u] = @ \cup {"is_user_member"}]
        /\ replies' = [replies EXCEPT ![u] = IF delivered THEN @ \cup {"too_long"} ELSE @]
        /\ crashed' = [crashed EXCEPT ![u] = ~delivered]
    /\ text' = [text EXCEPT ![u] = <<>>]
    /\ pc' = [pc EXCEPT ![u] = "idle"]
    /\ UNCHANGED <<tracker_vars, config_vars, awaiting, remaining, ask_result, fetch,
                   unit_vars>>

(* Lines 327-350: a member's text passes the length test and the quota is *)
(* used up.                                                               *)
reject_limit(u) ==
    /\ pc[u] = "is_user_member"
    /\ \E status \in MemberStatuses, delivered \in BOOLEAN :
        LET r == check_user_limit(user_usage, today, u) IN
        /\ is_user_member(status)
        /\ ~too_long(text[u])
        /\ ~r.can_ask
        /\ user_usage' = r.usage
        /\ remaining' = [remaining EXCEPT ![u] = r.remaining]
        /\ member_status' = [member_status EXCEPT ![u] = status]
        /\ calls' = [calls EXCEPT ![u] = @ \cup {"is_user_member", "check_user_limit"}]
        /\ replies' = [replies EXCEPT ![u] = IF delivered THEN @ \cup {"limit"} ELSE @]
        /\ crashed' = [crashed EXCEPT ![u] = ~delivered]
    /\ text' = [text EXCEPT ![u] = <<>>]
    /\ pc' = [pc EXCEPT ![u] = "idle"]
    /\ UNCHANGED <<today, config_vars, awaiting, ask_result, fetch, unit_vars>>

(* Lines 327-354: all three checks pass; the run suspends in               *)
(* send_chat_action.                                                       *)
pass_checks(u) ==
    /\ pc[u] = "is_user_member"
    /\ \E status \in MemberStatuses :
        LET r == check_user_limit(user_usage, today, u) IN
        /\ is_user_member(status)
        /\ ~too_long(text[u])
        /\ r.can_ask
        /\ user_usage' = r.usage
        /\ remaining' = [remaining EXCEPT ![u] = r.remaining]
        /\ member_status' = [member_status EXCEPT ![u] = status]
        /\ calls' = [calls EXCEPT ![u] = @ \cup {"is_user_member", "check_user_limit"}]
    /\ pc' = [pc EXCEPT ![u] = "send_chat_action"]
    /\ UNCHANGED <<today, config_vars, awaiting, text, replies, ask_result, crashed, fetch,
                   unit_vars>>

(* Lines 353-361: send_chat_action returns or raises (swallowed), then the *)
(* "processing" notice is sent and the run suspends in ask_gemini.         *)
send_chat_action_returns(u) ==
    /\ pc[u] = "send_chat_action"
    /\ calls' = [calls EXCEPT ![u] = @ \cup {"send_chat_action"}]
    /\ \E delivered \in BOOLEAN :
        IF delivered
        THEN /\ replies' = [replies EXCEPT ![u] = @ \cup {"processing"}]
             /\ pc' = [pc EXCEPT ![u] = "ask_gemini"]
             /\ UNCHANGED <<text, crashed>>
        ELSE /\ crashed' = [crashed EXCEPT ![u] = TRUE]
             /\ pc' = [pc EXCEPT ![u] = "idle"]
             /\ text' = [text EXCEPT ![u] = <<>>]
             /\ UNCHANGED replies
    /\ UNCHANGED <<tracker_vars, config_vars, awaiting, remaining, member_status,
                   ask_result, fetch, unit_vars>>

(***************************************************************************)
(* Lines 371-385: delivery of the answer; the result is the set of parts   *)
(* of the composed message that reach the user.  The answer and the footer *)
(* go out as one message, or as two when the whole exceeds 4096 characters *)
(* (is_long: the texts of the model are far shorter, so which of the two   *)
(* happens is left open); when a reply raises, the answer alone is sent    *)
(* once more and a further failure is swallowed.  sent1, sent2 and sent3   *)
(* say whether the first, the second and the fallback reply succeed.       *)
(***************************************************************************)
deliver(is_long, sent1, sent2, sent3) ==
    LET fallback == IF sent3 THEN {"answer"} ELSE {} IN
    IF ~is_long
    THEN (IF sent1 THEN {"answer", "footer"} ELSE fallback)
    ELSE IF ~sent1 THEN fallback
         ELSE IF sent2 THEN {"answer", "footer"}
              ELSE {"answer"} \cup fallback

Deliveries == {deliver(l, s1, s2, s3) : l \in BOOLEAN, s1 \in BOOLEAN, s2 \in BOOLEAN, s3 \in BOOLEAN}

(* Faulty variant of after_answer: the local figure is never lowered. *)
after_answer_no_decrement(left, failed) == left

(* Lines 364-366: the local remaining after the answer is classified. *)
after_answer(left, failed) == IF failed THEN left ELSE left - 1

(* Line 368: the figure the footer shows. *)
footer_remaining(left) == Max(0, left)

(* Lines 361-385: ask_gemini returns; the answer is counted unless it is  *)
(* marked as a failure, the footer is composed and the answer delivered.  *)
ask_gemini_returns(u) ==
    /\ pc[u] = "ask_gemini"
    /\ \E resp \in ProviderResponses :
        LET answer == ask_gemini(gemini_api_key, resp) IN
        /\ ask_result' = [ask_result EXCEPT ![u] = answer_kind(gemini_api_key, resp)]
        /\ remaining' = [remaining EXCEPT ![u] = after_answer(@, is_failure(answer))]
        /\ IF ~is_failure(answer)
           THEN /\ user_usage' = increment_user_usage(user_usage, today, u)
                /\ calls' = [calls EXCEPT ![u] = @ \cup {"ask_gemini", "increment_user_usage"}]
           ELSE /\ calls' = [calls EXCEPT ![u] = @ \cup {"ask_gemini"}]
                /\ UNCHANGED user_usage
    /\ \E delivered \in Deliveries :
        replies' = [replies EXCEPT ![u] = @ \cup delivered]
    /\ text' = [text EXCEPT ![u] = <<>>]
    /\ pc' = [pc EXCEPT ![u] = "idle"]
    /\ UNCHANGED <<today, config_vars, awaiting, member_status, crashed, fetch, unit_vars>>

(***************************************************************************)
(* The commands and the buttons.  Each is one step: the code that changes  *)
(* the state has no await inside.  Ran puts into the ghost variables the   *)
(* handler's name and the calls it made, the quota figure it computed and  *)
(* what get_site_stats returned to it; replies, crashed, ask_result and    *)
(* member_status describe runs of handle_message only and are cleared.     *)
(* Whether the handler's own message reaches the user changes nothing in   *)
(* the state and is not modelled.                                          *)
(***************************************************************************)
Ran(u, made, shown, fetched) ==
    /\ calls' = [calls EXCEPT ![u] = made]
    /\ remaining' = [remaining EXCEPT ![u] = shown]
    /\ fetch' = [fetch EXCEPT ![u] = fetched]
    /\ replies' = [replies EXCEPT ![u] = {}]
    /\ crashed' = [crashed EXCEPT ![u] = FALSE]
    /\ ask_result' = [ask_result EXCEPT ![u] = "none"]
    /\ member_status' = [member_status EXCEPT ![u] = "none"]

(* Lines 252-262: /start sends the welcome text with the keyboard. *)
start_command(u) ==
    /\ pc[u] = "idle"
    /\ Ran(u, {"start_command"}, 0, "none")
    /\ UNCHANGED <<tracker_vars, config_vars, awaiting, pc, text, unit_vars>>

(* Faulty variant of help_command: it ends a pending search. *)
help_command_resets(u) ==
    /\ pc[u] = "idle"
    /\ Ran(u, {"help_command"}, 0, "none")
    /\ awaiting' = [awaiting EXCEPT ![u] = FALSE]
    /\ UNCHANGED <<tracker_vars, config_vars, pc, text, unit_vars>>

(* Lines 265-270: /help sends the help text. *)
help_command(u) ==
    /\ pc[u] = "idle"
    /\ Ran(u, {"help_command"}, 0, "none")
    /\ UNCHANGED <<tracker_vars, config_vars, awaiting, pc, text, unit_vars>>

(* Lines 273-280: the help button. *)
button_callback_help(u) ==
    /\ pc[u] = "idle"
    /\ Ran(u, {"button_callback_help"}, 0, "none")
    /\ UNCHANGED <<tracker_vars, config_vars, awaiting, pc, text, unit_vars>>

(***************************************************************************)
(* Lines 197-214: get_site_stats.  Without a URL, on a status other than   *)
(* 200 and on any exception (timeout, a body that is not a JSON object) it *)
(* returns None; on a 200 response it returns the formatted text, also     *)
(* when the object carries no counters ("no_counters": the text then shows *)
(* None for both).                                                         *)
(***************************************************************************)
StatsResponses == {"status", "error", "counters", "no_counters"}

get_site_stats_outcome(site_stats_url, resp) ==
    IF ~site_stats_url THEN "unconfigured" ELSE resp

get_site_stats(site_stats_url, resp) ==
    IF get_site_stats_outcome(site_stats_url, resp) \in {"unconfigured", "status", "error"}
    THEN "None"
    ELSE "text"

(* What get_site_stats can return.  site_stats_url is read by that         *)
(* function alone and is not kept in the state: each press draws it        *)
(* together with the response.                                             *)
SiteStats == {get_site_stats(url, resp) : url \in BOOLEAN, resp \in StatsResponses}

(* The figure of line 291. *)
used_quota(left) == DAILY_LIMIT - left

(* Faulty variant of button_callback_stats: the fallback counts as a use. *)
button_callback_stats_counting(u) ==
    /\ pc[u] = "idle"
    /\ \/ /\ Ran(u, {"button_callback_stats"}, 0, "none")
          /\ UNCHANGED user_usage
       \/ \E stats \in SiteStats :
            LET r == check_user_limit(user_usage, today, u) IN
            IF stats # "None"
            THEN /\ Ran(u, {"button_callback_stats", "get_site_stats"}, 0, stats)
                 /\ UNCHANGED user_usage
            ELSE /\ user_usage' = increment_user_usage(r.usage, today, u)
                 /\ Ran(u, {"button_callback_stats", "get_site_stats", "check_user_limit"},
                        r.remaining, stats)
    /\ UNCHANGED <<today, config_vars, awaiting, pc, text, unit_vars>>

(***************************************************************************)
(* Lines 273-300: the stats button.  query.answer() raises and the handler *)
(* ends there, or get_site_stats is called and either its text is shown or *)
(* (it returned None) check_user_limit is called for the presser and the   *)
(* presser's own figures are shown.                                        *)
(***************************************************************************)
button_callback_stats(u) ==
    /\ pc[u] = "idle"
    /\ \/ /\ Ran(u, {"button_callback_stats"}, 0, "none")
          /\ UNCHANGED user_usage
       \/ \E stats \in SiteStats :
            LET r == check_user_limit(user_usage, today, u) IN
            IF stats # "None"
            THEN /\ Ran(u, {"button_callback_stats", "get_site_stats"}, 0, stats)
                 /\ UNCHANGED user_usage
            ELSE /\ user_usage' = r.usage
                 /\ Ran(u, {"button_callback_stats", "get_site_stats", "check_user_limit"},
                        r.remaining, stats)
    /\ UNCHANGED <<today, config_vars, awaiting, pc, text, unit_vars>>

(* Lines 273-276, 302-305: the search button sets awaiting_model_code and *)
(* then shows the prompt; when query.answer() raises, nothing is set.     *)
button_callback_search_model(u) ==
    /\ pc[u] = "idle"
    /\ \E answered \in BOOLEAN :
        /\ awaiting' = [awaiting EXCEPT ![u] = IF answered THEN TRUE ELSE @]
        /\ Ran(u, {"button_callback_search_model"}, 0, "none")
    /\ UNCHANGED <<tracker_vars, config_vars, pc, text, unit_vars>>

(***************************************************************************)
(* The tracker on its own: check_user_limit and increment_user_usage       *)
(* called for any user in any order.  ret keeps what the last check of a   *)
(* user returned and on which day, incs counts the increments of a user    *)
(* made on the current day, last_op names the call made last.              *)
(***************************************************************************)
tracker_check(u) ==
    LET r == check_user_limit(user_usage, today, u) IN
    /\ user_usage' = r.usage
    /\ ret' = [ret EXCEPT ![u] = [valid |-> TRUE, can_ask |-> r.can_ask,
                                  remaining |-> r.remaining, day |-> today]]
    /\ last_op' = <<"check_user_limit", u>>
    /\ UNCHANGED <<today, config_vars, handler_vars, incs>>

tracker_increment(u) ==
    /\ u \in DOMAIN user_usage => user_usage[u].count < DAILY_LIMIT + MaxOver
    /\ user_usage' = increment_user_usage(user_usage, today, u)
    /\ incs' = [incs EXCEPT ![u] = @ + 1]
    /\ last_op' = <<"increment_user_usage", u>>
    /\ UNCHANGED <<today, config_vars, handler_vars, ret>>

tracker_midnight ==
    /\ today < MaxDay
    /\ today' = today + 1
    /\ incs' = [u \in Users |-> 0]
    /\ last_op' = <<"midnight", "none">>
    /\ UNCHANGED <<user_usage, config_vars, handler_vars, ret>>

NextTracker ==
    \/ tracker_midnight
    \/ \E u \in Users : tracker_check(u)
    \/ \E u \in Users : tracker_increment(u)

SpecTracker == Init /\ [][NextTracker]_vars

Next ==
    \/ midnight
    \/ \E u \in Users : start_command(u)
    \/ \E u \in Users : help_command(u)
    \/ \E u \in Users : button_callback_help(u)
    \/ \E u \in Users : handle_message_search(u)
    \/ \E u \in Users : search_returns(u)
    \/ \E u \in Users : handle_message_question(u)
    \/ \E u \in Users : reject_not_member(u)
    \/ \E u \in Users : reject_too_long(u)
    \/ \E u \in Users : reject_limit(u)
    \/ \E u \in Users : pass_checks(u)
    \/ \E u \in Users : send_chat_action_returns(u)
    \/ \E u \in Users : ask_gemini_returns(u)
    \/ \E u \in Users : button_callback_stats(u)
    \/ \E u \in Users : button_callback_search_model(u)

Spec == Init /\ [][Next]_vars

(***************************************************************************)
(* Properties.                                                             *)
(***************************************************************************)
ConfirmedStatuses == {"member", "administrator", "creator"}

HasRecord(u) == u \in DOMAIN user_usage

(* What check_user_limit would report for u in the current state. *)
RemainingNow(u) == check_user_limit(user_usage, today, u).remaining

(* The step in which u's ask_gemini call returns a failure message and the  *)
(* run ends.                                                                *)
AskFailed(u) ==
    /\ pc[u] = "ask_gemini"
    /\ pc'[u] = "idle"
    /\ ask_result'[u] = "failure"

(* C1, as stated: when ask_gemini returns a failure message,               *)
(* increment_user_usage is not called and check_user_limit reports for the *)
(* user, right after the run, the remaining value it reported to the run   *)
(* (remaining[u] is the value line 347 received).                          *)
C1_FailedAskSameRemaining ==
    [][\A u \in Users :
          AskFailed(u) =>
              /\ "increment_user_usage" \notin calls'[u]
              /\ RemainingNow(u)' = remaining[u]]_vars

(* C1, amended: when ask_gemini returns a failure message,                 *)
(* increment_user_usage is not called and the whole usage map is left as   *)
(* the quota check left it; check_user_limit reports the same remaining    *)
(* value right after the run provided the UTC date is still the date of    *)
(* the quota check.                                                        *)
C1_FailedAskNoQuota ==
    [][\A u \in Users :
          AskFailed(u) =>
              /\ "increment_user_usage" \notin calls'[u]
              /\ user_usage' = user_usage
              /\ remaining'[u] = remaining[u]
              /\ user_usage[u].date = today => RemainingNow(u)' = remaining[u]]_vars

(* C1, witness: a run of a user who has one counted answer today ended     *)
(* with a failure message that was delivered; the count is still 1.        *)
C1_Witness ==
    \E u \in Users :
        /\ pc[u] = "idle"
        /\ ask_result[u] = "failure"
        /\ "answer" \in replies[u]
        /\ HasRecord(u)
        /\ user_usage[u] = [date |-> today, count |-> 1]
        /\ remaining[u] = DAILY_LIMIT - 1

(* C2, as stated: after the first check_user_limit or increment_user_usage *)
(* call of a user on a new day (and after every later one) the record      *)
(* carries the current date and its count is the number of increments made *)
(* on that day.                                                            *)
C2_RolloverOnFirstCall ==
    \A u \in Users :
        last_op \in {<<"check_user_limit", u>>, <<"increment_user_usage", u>>} =>
            /\ HasRecord(u)
            /\ user_usage[u].date = today
            /\ user_usage[u].count = incs[u]

C4_CountWithinLimit ==
    \A u \in Users : HasRecord(u) => user_usage[u].count <= DAILY_LIMIT

(* C4, witness: a user's count reached DAILY_LIMIT by an increment made    *)
(* after the date changed during the run, while the other user's run is    *)
(* suspended in ask_gemini.                                                *)
C4_Witness ==
    \E u \in Users, v \in Users :
        /\ u # v
        /\ pc[u] = "idle"
        /\ "increment_user_usage" \in calls[u]
        /\ HasRecord(u)
        /\ user_usage[u].count = DAILY_LIMIT
        /\ user_usage[u].date < today
        /\ pc[v] = "ask_gemini"

(* C5: a run in which get_chat_member does not confirm membership (another *)
(* status, or an error) ends at once: it has called nothing but            *)
(* is_user_member, has sent nothing but the join prompt (which it has sent *)
(* unless reply_text raised), and its rejecting step leaves the usage map  *)
(* unchanged.                                                              *)
C5_NonMemberRejectedFirst ==
    [][\A u \in Users :
          member_status'[u] \in MemberStatuses \ ConfirmedStatuses =>
              /\ pc'[u] = "idle"
              /\ calls'[u] = {"is_user_member"}
              /\ replies'[u] \subseteq {"join"}
              /\ ~crashed'[u] => replies'[u] = {"join"}
              /\ ask_result'[u] = "none"
              /\ member_status[u] = "none" => user_usage' = user_usage]_vars

(* C5, witness: the membership check raised, the join prompt was sent and  *)
(* the user has no usage record.                                           *)
C5_Witness ==
    \E u \in Users :
        /\ member_status[u] = "error"
        /\ replies[u] = {"join"}
        /\ ~HasRecord(u)

(* The step in which u's membership is confirmed and the length test is    *)
(* made.                                                                   *)
LengthTested(u) ==
    /\ pc[u] = "is_user_member"
    /\ pc'[u] # "is_user_member"
    /\ member_status'[u] \in ConfirmedStatuses

(* C6: a member's question (the stripped text) longer than                 *)
(* MAX_QUESTION_LENGTH ends the run with the too-long message, the whole   *)
(* usage map unchanged and nothing called but is_user_member; a question   *)
(* of at most MAX_QUESTION_LENGTH characters goes on to the quota check.   *)
C6_TooLongRejectedFirst ==
    [][\A u \in Users :
          LengthTested(u) =>
              /\ Len(text[u]) > MAX_QUESTION_LENGTH =>
                    /\ user_usage' = user_usage
                    /\ pc'[u] = "idle"
                    /\ calls'[u] = {"is_user_member"}
                    /\ ask_result'[u] = "none"
                    /\ replies'[u] \subseteq {"too_long"}
                    /\ ~crashed'[u] => replies'[u] = {"too_long"}
              /\ Len(text[u]) <= MAX_QUESTION_LENGTH =>
                    /\ "check_user_limit" \in calls'[u]
                    /\ "too_long" \notin replies'[u]]_vars

(* C6, witness: one user was sent the too-long message and has no usage    *)
(* record, another's question of exactly MAX_QUESTION_LENGTH characters    *)
(* has passed the length test.                                             *)
C6_Witness ==
    \E u \in Users, v \in Users :
        /\ replies[u] = {"too_long"}
        /\ ~HasRecord(u)
        /\ pc[v] = "send_chat_action"
        /\ Len(text[v]) = MAX_QUESTION_LENGTH

(* The step in which u's run calls check_user_limit. *)
QuotaChecked(u) ==
    /\ pc[u] = "is_user_member"
    /\ "check_user_limit" \in calls'[u]

(* C7: when the count that check_user_limit finds (after its date reset)   *)
(* is not below DAILY_LIMIT, the run ends with the limit-reached message:  *)
(* no typing indicator, no ask_gemini, no increment_user_usage, and the    *)
(* usage map is unchanged.                                                 *)
C7_LimitReachedStops ==
    [][\A u \in Users :
          QuotaChecked(u) /\ user_usage'[u].count >= DAILY_LIMIT =>
              /\ pc'[u] = "idle"
              /\ calls'[u] = {"is_user_member", "check_user_limit"}
              /\ ask_result'[u] = "none"
              /\ replies'[u] \subseteq {"limit"}
              /\ ~crashed'[u] => replies'[u] = {"limit"}
              /\ remaining'[u] = 0
              /\ user_usage' = user_usage]_vars

(* C7, witness: a user with DAILY_LIMIT counted answers today was sent the *)
(* limit-reached message.                                                  *)
C7_Witness ==
    \E u \in Users :
        /\ replies[u] = {"limit"}
        /\ calls[u] = {"is_user_member", "check_user_limit"}
        /\ HasRecord(u)
        /\ user_usage[u] = [date |-> today, count |-> DAILY_LIMIT]

(* C8: right after check_user_limit(u) the record is dated today and the   *)
(* call returned can_ask = (count < DAILY_LIMIT) and                       *)
(* remaining = max(0, DAILY_LIMIT - count) for the count now stored; so    *)
(* 0 <= remaining <= DAILY_LIMIT and can_ask holds exactly when            *)
(* remaining > 0.                                                          *)
C8_CheckResult ==
    \A u \in Users :
        last_op = <<"check_user_limit", u>> =>
            /\ HasRecord(u)
            /\ user_usage[u].date = today
            /\ ret[u].valid
            /\ ret[u].can_ask = (user_usage[u].count < DAILY_LIMIT)
            /\ ret[u].remaining = Max(0, DAILY_LIMIT - user_usage[u].count)
            /\ 0 <= ret[u].remaining
            /\ ret[u].remaining <= DAILY_LIMIT
            /\ ret[u].can_ask <=> ret[u].remaining > 0

(* C8, witness: a check made on a record that was incremented past the     *)
(* limit returned (false, 0).                                              *)
C8_Witness ==
    \E u \in Users :
        /\ last_op = <<"check_user_limit", u>>
        /\ user_usage[u] = [date |-> today, count |-> DAILY_LIMIT + 1]
        /\ ret[u].can_ask = FALSE
        /\ ret[u].remaining = 0

(* C9: a check_user_limit(u) made on the day of u's previous check returns *)
(* a remaining value no greater than the previous one, and once the        *)
(* previous one was 0 it returns can_ask = false and remaining = 0.        *)
C9_RemainingMonotone ==
    [][\A u \in Users :
          /\ last_op' = <<"check_user_limit", u>>
          /\ ret[u].valid
          /\ ret[u].day = today'
          => /\ ret'[u].remaining <= ret[u].remaining
             /\ ret[u].remaining = 0 => ~ret'[u].can_ask /\ ret'[u].remaining = 0]_vars

(* C9, witness: a second check on the same day, made after more increments *)
(* than the limit, returned 0 again.                                       *)
C9_Witness ==
    \E u \in Users :
        /\ last_op = <<"check_user_limit", u>>
        /\ ret[u].valid
        /\ ret[u].day = today
        /\ ret[u].remaining = 0
        /\ incs[u] = DAILY_LIMIT + MaxOver
        /\ today > 0

(* C10, as stated: a check_user_limit made after n >= DAILY_LIMIT          *)
(* increments of the same day returns (false, 0), and one made after 0     *)
(* increments of the day returns (true, DAILY_LIMIT).                      *)
C10_AdvisoryLimit ==
    \A u \in Users :
        last_op = <<"check_user_limit", u>> =>
            /\ incs[u] >= DAILY_LIMIT => ~ret[u].can_ask /\ ret[u].remaining = 0
            /\ incs[u] = 0 => ret[u].can_ask /\ ret[u].remaining = DAILY_LIMIT

(* The part of the state that belongs to u's handlers. *)
UserView(u) ==
    <<awaiting[u], pc[u], text[u], remaining[u], member_status[u], calls[u], replies[u],
      ask_result[u], crashed[u], fetch[u]>>

HandlerNames ==
    {"start_command", "help_command", "button_callback_help", "button_callback_stats",
     "button_callback_search_model"}

(* The step in which handle_message takes up a text message of u. *)
TextArrives(u) ==
    /\ pc[u] = "idle"
    /\ calls'[u] = {}
    /\ pc'[u] # "idle" \/ (crashed'[u] /\ UserView(u)' # UserView(u))

(* u's usage record, if any. *)
NoRecord == [date |-> -1, count |-> -1]

Record(u) == IF HasRecord(u) THEN user_usage[u] ELSE NoRecord

(* The step in which the named command or button of u is handled. *)
Handled(u, name) ==
    /\ pc[u] = "idle"
    /\ name \in calls'[u]
    /\ <<UserView(u), Record(u)>>' # <<UserView(u), Record(u)>>

(* The step in which any command or button of u is handled. *)
CommandHandled(u) ==
    /\ pc[u] = "idle"
    /\ calls'[u] \cap HandlerNames # {}
    /\ <<UserView(u), Record(u)>>' # <<UserView(u), Record(u)>>

(* u's last update was a text message and handle_message has finished it. *)
TextHandled(u) ==
    /\ pc[u] = "idle"
    /\ calls[u] \cap HandlerNames = {}
    /\ calls[u] # {} \/ replies[u] # {} \/ crashed[u]

(* C11, as stated: awaiting_model_code is set by the user's press of the   *)
(* search button only; the user's next text message clears it, runs none   *)
(* of the question pipeline and suspends in search_site_by_model, which is *)
(* called once before the run ends with the flag still cleared; a text     *)
(* message that finds the flag cleared enters the question pipeline.       *)
C11_SearchRoundTrip ==
    [][\A u \in Users :
          /\ ~awaiting[u] /\ awaiting'[u] => Handled(u, "button_callback_search_model")
          /\ TextArrives(u) /\ awaiting[u] =>
                 /\ ~awaiting'[u]
                 /\ pc'[u] = "search_site_by_model"
                 /\ member_status'[u] = "none"
          /\ pc[u] = "search_site_by_model" /\ pc'[u] # pc[u] =>
                 /\ pc'[u] = "idle"
                 /\ calls'[u] = {"search_site_by_model"}
                 /\ ~awaiting'[u]
          /\ TextArrives(u) /\ ~awaiting[u] => pc'[u] = "is_user_member"]_vars

(* C12, as stated: a run of handle_message that has ended did not end with *)
(* an uncaught exception and sent at least one reply.                      *)
C12_AlwaysReplied ==
    \A u \in Users : TextHandled(u) => ~crashed[u] /\ replies[u] # {}

(* C14: increment_user_usage called for a user who has no record returns   *)
(* normally and leaves a record dated today with count 1, so that a        *)
(* check_user_limit made next on the same day reports                      *)
(* remaining = max(0, DAILY_LIMIT - 1).                                    *)
C14_IncrementCreates ==
    [][\A u \in Users :
          last_op' = <<"increment_user_usage", u>> /\ ~HasRecord(u) =>
              /\ u \in DOMAIN user_usage'
              /\ user_usage'[u] = [date |-> today, count |-> 1]
              /\ check_user_limit(user_usage', today', u).remaining = Max(0, DAILY_LIMIT - 1)
              /\ check_user_limit(user_usage', today', u).usage = user_usage']_vars

(* C14, witness: on the second day a user who was never checked has a      *)
(* record made by an increment, and the other user has none at all.        *)
C14_Witness ==
    \E u \in Users :
        /\ last_op = <<"increment_user_usage", u>>
        /\ ~ret[u].valid
        /\ today > 0
        /\ HasRecord(u)
        /\ user_usage[u] = [date |-> today, count |-> 1]
        /\ \E v \in Users : ~HasRecord(v)

AskReturned(u) ==
    /\ pc[u] = "ask_gemini"
    /\ pc'[u] = "idle"

(* C15: without an API key ask_gemini returns the not-configured message   *)
(* whatever the provider would have answered (no request is made), and the *)
(* run takes it for a failure: increment_user_usage is not called, the     *)
(* usage map is left as it is, and the footer shows the remaining value    *)
(* the quota check returned.                                               *)
C15_UnconfiguredIsFailure ==
    [][\A u \in Users :
          AskReturned(u) /\ ~gemini_api_key =>
              /\ \A resp \in ProviderResponses :
                     ask_gemini(gemini_api_key, resp) = MSG_NOT_CONFIGURED
              /\ ask_result'[u] = "failure"
              /\ "increment_user_usage" \notin calls'[u]
              /\ user_usage' = user_usage
              /\ footer_remaining(remaining'[u]) = remaining[u]]_vars

(* C15, witness: the bot has no API key and a user's first question of the *)
(* day ended with the answer and its footer delivered, the count still 0.  *)
C15_Witness ==
    \E u \in Users :
        /\ ~gemini_api_key
        /\ pc[u] = "idle"
        /\ ask_result[u] = "failure"
        /\ {"answer", "footer"} \subseteq replies[u]
        /\ remaining[u] = DAILY_LIMIT
        /\ Record(u) = [date |-> today, count |-> 0]

(* C16, as stated: whenever the provider generated a text (status 200, a   *)
(* first part that is not blank), with or without a mark at its start, the *)
(* run calls increment_user_usage and the user's count goes up by 1.       *)
C16_SuccessCounted ==
    [][\A u \in Users :
          AskReturned(u) /\ ask_result'[u] \in {"success", "marked"} =>
              /\ "increment_user_usage" \in calls'[u]
              /\ Record(u)'.count = Record(u).count + 1]_vars

(* C17, as stated: a step that changes one user's record changes nothing   *)
(* of any other user, and every step changes a user's count by the number  *)
(* of texts the provider generated for that user in the step (1 or 0),     *)
(* unless it resets or creates the record, which then has count 0.         *)
C17_CountIsAnswers ==
    [][\A u \in Users :
          /\ Record(u)' # Record(u) =>
                 \A v \in Users \ {u} : Record(v)' = Record(v) /\ UserView(v)' = UserView(v)
          /\ Record(u)'.count =
                 IF Record(u)'.date # Record(u).date
                 THEN 0
                 ELSE IF AskReturned(u) /\ ask_result'[u] \in {"success", "marked"}
                      THEN Record(u).count + 1
                      ELSE Record(u).count]_vars

(* C18: when a run of the question pipeline ends on the date of its quota  *)
(* check, the figure in the footer is the remaining value check_user_limit *)
(* reports for the user right after the run, whether the answer was        *)
(* counted or not.                                                         *)
C18_FooterIsRemaining ==
    [][\A u \in Users :
          AskReturned(u) /\ Record(u)'.date = today' =>
              footer_remaining(remaining'[u]) = RemainingNow(u)']_vars

(* C18, witness: on the same day one user's run ended with the last        *)
(* counted answer and footer 0, and the other user's run with a failure    *)
(* message and the footer unchanged.                                       *)
C18_Witness ==
    \E u \in Users, v \in Users :
        /\ pc[u] = "idle"
        /\ "increment_user_usage" \in calls[u]
        /\ "footer" \in replies[u]
        /\ remaining[u] = 0
        /\ Record(u) = [date |-> today, count |-> DAILY_LIMIT]
        /\ pc[v] = "idle"
        /\ ask_result[v] = "failure"
        /\ "footer" \in replies[v]
        /\ remaining[v] = DAILY_LIMIT - 1
        /\ Record(v) = [date |-> today, count |-> 1]

(* C19: a step changes the awaiting_model_code flag of one user at most;   *)
(* the flag is set by that user's press of the search button only and      *)
(* cleared only by a text message of that user, which the search branch    *)
(* takes (so no command or button, of any user, clears it); a text message *)
(* that leaves the sender's flag as it is found it cleared and enters the  *)
(* question pipeline.                                                      *)
C19_SearchModePerUser ==
    [][\A u \in Users :
          IF awaiting'[u] # awaiting[u]
          THEN /\ \A v \in Users \ {u} : awaiting'[v] = awaiting[v]
               /\ IF awaiting[u]
                  THEN TextArrives(u) /\ pc'[u] \in {"search_site_by_model", "idle"}
                  ELSE Handled(u, "button_callback_search_model")
          ELSE TextArrives(u) => ~awaiting[u] /\ pc'[u] = "is_user_member"]_vars

(* C19, witness: a user pressed the search button and then sent /help, the *)
(* flag is still set; meanwhile a text message of the other user, whose    *)
(* flag is not set, has entered the question pipeline.                     *)
C19_Witness ==
    \E u \in Users, v \in Users :
        /\ awaiting[u]
        /\ calls[u] = {"help_command"}
        /\ ~awaiting[v]
        /\ pc[v] = "ask_gemini"

====
